---- MODULE Spec2Model ----
(***************************************************************************)
(* A model of graphblas.core.utils.normalize_chunks and of the Mask        *)
(* wrapper classes of grblas.mask.                                         *)
(*                                                                         *)
(* Python values are tagged records [t |-> tag, v |-> payload]:            *)
(*   "none"   None                                                         *)
(*   "int"    an Integral, v the integer                                   *)
(*   "float"  a float, v the value counted in halves (v = 4 is 2.0,        *)
(*            v = 1 is 0.5), so that is_integer() and int() are computed   *)
(*   "str"    a value that is no number, sequence, array or None           *)
(*   "seq"    a list or tuple, v the sequence of its elements              *)
(*   "array"  a numpy array, v = [dtype, ndim, data]                       *)
(* Python indexes from 0 and TLA+ sequences from 1: none_index holds the   *)
(* 1-based position, and 0 stands for Python's `none_index = None`.        *)
(***************************************************************************)
EXTENDS Integers, Sequences, FiniteSets, TLC

\* ------------------------------------------------------------------ bounds
MaxSize == 3
MaxChunk == 2
MaxLen == 3
MaxInverts == 4
NumObjs == 2

\* ------------------------------------------------------------ Python values
NoneV == [t |-> "none", v |-> 0]
IntV(n) == [t |-> "int", v |-> n]
FloatV(h) == [t |-> "float", v |-> h]
StrV == [t |-> "str", v |-> 0]
SeqV(s) == [t |-> "seq", v |-> s]
ArrV(dtype, ndim, data) == [t |-> "array", v |-> [dtype |-> dtype, ndim |-> ndim, data |-> data]]

\* isinstance(c, Integral) or isinstance(c, float) and c.is_integer()
IsWhole(c) == c.t = "int" \/ (c.t = "float" /\ c.v % 2 = 0)

\* int(c) of a whole number
ToInt(c) == IF c.t = "int" THEN c.v ELSE c.v \div 2

\* isinstance(chunks, Number)
IsNumber(c) == c.t \in {"int", "float"}

\* ndarray.tolist() of a one-dimensional array: Python ints or floats
ToList(a) == [k \in 1..Len(a.v.data) |->
                 IF a.v.dtype = "int" THEN IntV(a.v.data[k]) ELSE FloatV(a.v.data[k])]

\* a slip: the scalar is wrapped in a tuple but not repeated
BroadcastOnce(c, shape) == <<c>>

\* (chunks,) * len(shape)
Broadcast(c, shape) == [k \in 1..Len(shape) |-> c]

\* [chunk] * div
Repeat(c, n) == [k \in 1..n |-> c]

RECURSIVE Sum(_)
\* sum(cur_chunks)
Sum(s) == IF s = << >> THEN 0 ELSE Head(s) + Sum(Tail(s))

\* -------------------------------------------------------- outcomes
Ok(val) == [err |-> "", val |-> val]

\* a slip: the error is swallowed and the dimension is left empty
RaiseSwallowed(kind) == [err |-> "", val |-> << >>]

\* raise <kind>(...)
Raise(kind) == [err |-> kind, val |-> << >>]

\* ------------------------------------------------ per-dimension forms
\* chunk is None
NoneChunks(size) == Ok(<<size>>)

\* a slip: `if mod:` dropped, the remainder is appended even when it is zero
ScalarChunksAlwaysMod(size, chunk) ==
    LET c == ToInt(chunk) IN
    IF c < 0 THEN [err |-> "ValueError", val |-> << >>]
    ELSE IF c = 0 THEN [err |-> "ZeroDivisionError", val |-> << >>]
    ELSE Ok(Append([k \in 1..(size \div c) |-> c], size % c))

\* chunk is a whole number
ScalarChunks(size, chunk) ==
    LET c == ToInt(chunk) IN
    IF c < 0 THEN Raise("ValueError")
    ELSE IF c = 0 THEN Raise("ZeroDivisionError")
    ELSE LET div == size \div c
             mod == size % c
             cur == Repeat(c, div)
         IN  Ok(IF mod # 0 THEN Append(cur, mod) ELSE cur)

\* a slip: a second None takes over as the placeholder instead of raising
ElemStepOverwrite(c, cur, nidx) ==
    IF IsWhole(c)
    THEN IF ToInt(c) < 0
         THEN [err |-> "ValueError", cur |-> cur, nidx |-> nidx]
         ELSE [err |-> "", cur |-> Append(cur, ToInt(c)), nidx |-> nidx]
    ELSE IF c.t = "none"
    THEN [err |-> "", cur |-> Append(cur, 0), nidx |-> Len(cur) + 1]
    ELSE [err |-> "TypeError", cur |-> cur, nidx |-> nidx]

\* one pass of `for c in chunk` over the state (cur_chunks, none_index)
ElemStep(c, cur, nidx) ==
    IF IsWhole(c)
    THEN IF ToInt(c) < 0
         THEN [err |-> "ValueError", cur |-> cur, nidx |-> nidx]
         ELSE [err |-> "", cur |-> Append(cur, ToInt(c)), nidx |-> nidx]
    ELSE IF c.t = "none"
    THEN IF nidx # 0
         THEN [err |-> "TypeError", cur |-> cur, nidx |-> nidx]
         ELSE [err |-> "", cur |-> Append(cur, 0), nidx |-> Len(cur) + 1]
    ELSE [err |-> "TypeError", cur |-> cur, nidx |-> nidx]

\* a slip: cur_chunks aliases the caller's nested sequence, so the store
\* lands in the caller's object too
StoreFillAliased(caller, cur, dim, nidx, fill) ==
    [caller |-> IF caller.t = "seq"
                THEN [caller EXCEPT !.v[dim].v[nidx] = IntV(fill)]
                ELSE caller,
     cur |-> [cur EXCEPT ![nidx] = fill]]

\* cur_chunks[none_index] = fill, as its effect on the two lists in play: the
\* caller's chunks argument and cur_chunks.  cur_chunks is the list created by
\* `cur_chunks = []`, no alias of the caller's sequence, so only it changes.
StoreFill(caller, cur, dim, nidx, fill) ==
    [caller |-> caller, cur |-> [cur EXCEPT ![nidx] = fill]]

\* a slip: the `if fill < 0` test dropped
FillStepNoCheck(size, cur, nidx, caller, dim) ==
    IF nidx # 0
    THEN [err |-> "", val |-> [cur EXCEPT ![nidx] = size - Sum(cur)], caller |-> caller]
    ELSE [err |-> "", val |-> cur, caller |-> caller]

\* `if none_index is not None:` after the loop
FillStep(size, cur, nidx, caller, dim) ==
    IF nidx # 0
    THEN LET fill == size - Sum(cur) IN
         IF fill < 0 THEN [err |-> "ValueError", val |-> cur, caller |-> caller]
         ELSE LET st == StoreFill(caller, cur, dim, nidx, fill) IN
              [err |-> "", val |-> st.cur, caller |-> st.caller]
    ELSE [err |-> "", val |-> cur, caller |-> caller]

RECURSIVE SeqLoop(_, _, _, _)
SeqLoop(chunk, k, cur, nidx) ==
    IF k > Len(chunk) THEN [err |-> "", cur |-> cur, nidx |-> nidx]
    ELSE LET st == ElemStep(chunk[k], cur, nidx) IN
         IF st.err # "" THEN st ELSE SeqLoop(chunk, k + 1, st.cur, st.nidx)

\* chunk is a list or tuple
SeqChunks(size, chunk) ==
    LET st == SeqLoop(chunk, 1, << >>, 0) IN
    IF st.err # "" THEN Raise(st.err)
    ELSE LET f == FillStep(size, st.cur, st.nidx, NoneV, 0) IN
         IF f.err # "" THEN Raise(f.err) ELSE Ok(f.val)

\* chunk is a numpy array
ArrayChunks(a) ==
    IF a.dtype # "int" THEN Raise("TypeError")
    ELSE IF a.ndim # 1 THEN Raise("TypeError")
    ELSE IF \E k \in 1..Len(a.data) : a.data[k] < 0 THEN Raise("ValueError")
    ELSE Ok(a.data)

\* the body of `for size, chunk in zip(shape, chunks)`
DimChunks(size, chunk) ==
    IF chunk.t = "none" THEN NoneChunks(size)
    ELSE IF IsWhole(chunk) THEN ScalarChunks(size, chunk)
    ELSE IF chunk.t = "seq" THEN SeqChunks(size, chunk.v)
    ELSE IF chunk.t = "array" THEN ArrayChunks(chunk.v)
    ELSE Raise("TypeError")

\* the dispatch on type(chunks)
Dispatch(chunks, shape) ==
    IF chunks.t = "seq" THEN Ok(chunks.v)
    ELSE IF IsNumber(chunks) THEN Ok(Broadcast(chunks, shape))
    ELSE IF chunks.t = "array" THEN Ok(ToList(chunks))
    ELSE Raise("TypeError")

\* a slip: only a chunks argument that is too short is caught
LenMismatchShort(chunks, shape) == Len(chunks) < Len(shape)

\* len(chunks) != len(shape)
LenMismatch(chunks, shape) == Len(chunks) # Len(shape)

RECURSIVE DimLoop(_, _, _, _)
DimLoop(chunks, shape, k, acc) ==
    IF k > Len(shape) THEN Ok(acc)
    ELSE LET r == DimChunks(shape[k], chunks[k]) IN
         IF r.err # "" THEN Raise(r.err)
         ELSE DimLoop(chunks, shape, k + 1, Append(acc, r.val))

\* the whole function, as a value
normalize_chunks(chunks, shape) ==
    LET d == Dispatch(chunks, shape) IN
    IF d.err # "" THEN Raise(d.err)
    ELSE IF LenMismatch(d.val, shape) THEN Raise("ValueError")
    ELSE DimLoop(d.val, shape, 1, << >>)

\* ------------------------------------------------------------ Mask classes
MaskClasses == {"StructuralMask", "ValueMask",
                "ComplementedStructuralMask", "ComplementedValueMask"}

\* the class attributes
Complement(cls) == cls \in {"ComplementedStructuralMask", "ComplementedValueMask"}
Structure(cls) == cls \in {"StructuralMask", "ComplementedStructuralMask"}
Value(cls) == cls \in {"ValueMask", "ComplementedValueMask"}

\* Mask.__init__
NewMask(cls, obj) == [cls |-> cls, mask |-> obj]

\* a slip: ComplementedValueMask.__invert__ copied from ComplementedStructuralMask
InvertCopied(m) ==
    IF m.cls = "StructuralMask" THEN NewMask("ComplementedStructuralMask", m.mask)
    ELSE IF m.cls = "ValueMask" THEN NewMask("ComplementedValueMask", m.mask)
    ELSE NewMask("StructuralMask", m.mask)

\* __invert__ of the four classes
Invert(m) ==
    IF m.cls = "StructuralMask" THEN NewMask("ComplementedStructuralMask", m.mask)
    ELSE IF m.cls = "ValueMask" THEN NewMask("ComplementedValueMask", m.mask)
    ELSE IF m.cls = "ComplementedStructuralMask" THEN NewMask("StructuralMask", m.mask)
    ELSE NewMask("ValueMask", m.mask)

\* ------------------------------------------------------------------ inputs
Dims == {1, 2}
Shapes == UNION {[1..d -> 1..MaxSize] : d \in Dims}
SeqsUpTo(S, n) == UNION {[1..k -> S] : k \in 0..n}
Ints == (0 - 1)..MaxChunk
Numbers == {IntV(n) : n \in Ints} \cup {FloatV(1), FloatV(0 - 2), FloatV(2 * MaxChunk)}
Elems == Numbers \cup {NoneV, StrV}
Arrays == {ArrV("int", 1, d) : d \in SeqsUpTo(Ints, 2)}
              \cup {ArrV("float", 1, <<1>>), ArrV("int", 2, << >>)}
CoreElems == {NoneV, StrV, IntV(0 - 1), IntV(1), FloatV(2)}
RichDims == Elems \cup Arrays \cup {SeqV(s) : s \in SeqsUpTo(Elems, 2)}
                \cup {SeqV(s) : s \in SeqsUpTo(CoreElems, MaxLen)}
LeanDims == {NoneV, StrV, IntV(0 - 1), IntV(0), IntV(1), IntV(MaxChunk), FloatV(2),
             ArrV("int", 1, <<1>>), ArrV("int", 1, <<1, 0 - 1>>)}
              \cup {SeqV(s) : s \in SeqsUpTo({NoneV, IntV(0 - 1), IntV(1)}, 2)}
TinyDims == {NoneV, IntV(1), StrV, SeqV(<<NoneV, NoneV>>)}
TopArrays == {ArrV("int", 1, d) : d \in SeqsUpTo(Ints, 3)}
              \cup {ArrV("float", 1, d) : d \in SeqsUpTo({1, 4}, 2)}
\* the (chunks, shape) pairs a call is made with
Inputs ==
    {<<SeqV(<<d>>), sh>> : d \in RichDims, sh \in {s \in Shapes : Len(s) = 1}}
    \cup {<<SeqV(<<d[1], d[2]>>), sh>> :
            d \in LeanDims \X LeanDims, sh \in {s \in Shapes : Len(s) = 2}}
    \cup {<<SeqV(s), sh>> : s \in SeqsUpTo(TinyDims, 3), sh \in Shapes}
    \cup {<<c, sh>> : c \in Numbers \cup TopArrays \cup {NoneV, StrV}, sh \in Shapes}

Objs == 1..NumObjs
Slots == {"a", "b"}
NoMask == [cls |-> "", mask |-> 0]

\* ------------------------------------------------------------------- state
\* arg_chunks, arg_shape  the caller's objects passed as chunks and shape
\* chunks                 the local name chunks (rebound by the dispatch)
\* pc                     "start", "check_len", "loop" (head of the for over
\*                        dimensions), "inner" (the for over a nested chunk),
\*                        "append", "raised", "returned"; "idle" when no call runs
\* i, j                   1-based positions in zip(shape, chunks) and in chunk
\* cur_chunks, none_index, chunksizes   the locals of these names
\* raised                 the kind of the exception that ended the call, or ""
\* returned               the value handed to the caller, once there is one
\* masks                  the mask each program variable holds (NoMask: none yet)
\* hist                   per variable, the masks it has held, oldest first
VARIABLES arg_chunks, arg_shape, chunks, pc, i, j, cur_chunks, none_index,
          chunksizes, raised, returned, masks, hist

nvars == <<arg_chunks, arg_shape, chunks, pc, i, j, cur_chunks, none_index,
           chunksizes, raised, returned>>
mvars == <<masks, hist>>
vars == <<arg_chunks, arg_shape, chunks, pc, i, j, cur_chunks, none_index,
          chunksizes, raised, returned, masks, hist>>

NotReturned == [set |-> FALSE, val |-> << >>]

Locals0 ==
    /\ i = 0 /\ j = 0 /\ cur_chunks = << >> /\ none_index = 0
    /\ chunksizes = << >> /\ raised = "" /\ returned = NotReturned

\* a call normalize_chunks(arg_chunks, arg_shape) about to run
Init ==
    /\ \E inp \in Inputs : arg_chunks = inp[1] /\ arg_shape = inp[2]
    /\ chunks = arg_chunks
    /\ pc = "start"
    /\ Locals0
    /\ masks = [s \in Slots |-> NoMask]
    /\ hist = [s \in Slots |-> << >>]

\* `raise`: the call ends with an exception and returns nothing
Throw(kind) ==
    /\ pc' = "raised"
    /\ raised' = kind
    /\ UNCHANGED returned

\* lines 142-151
DoDispatch ==
    /\ pc = "start"
    /\ LET d == Dispatch(chunks, arg_shape) IN
       IF d.err # ""
       THEN Throw(d.err) /\ UNCHANGED chunks
       ELSE /\ chunks' = SeqV(d.val)
            /\ pc' = "check_len"
            /\ UNCHANGED <<raised, returned>>
    /\ UNCHANGED <<arg_chunks, arg_shape, i, j, cur_chunks, none_index, chunksizes>>
    /\ UNCHANGED mvars

\* lines 152-157
CheckLen ==
    /\ pc = "check_len"
    /\ IF LenMismatch(chunks.v, arg_shape)
       THEN Throw("ValueError") /\ UNCHANGED <<i, chunksizes>>
       ELSE /\ chunksizes' = << >>
            /\ i' = 1
            /\ pc' = "loop"
            /\ UNCHANGED <<raised, returned>>
    /\ UNCHANGED <<arg_chunks, arg_shape, chunks, j, cur_chunks, none_index>>
    /\ UNCHANGED mvars

AtDim == pc = "loop" /\ i <= Len(arg_shape)

\* the effect of a branch that computes cur_chunks in one go
Branch(r) ==
    /\ IF r.err # ""
       THEN Throw(r.err) /\ UNCHANGED cur_chunks
       ELSE /\ cur_chunks' = r.val
            /\ pc' = "append"
            /\ UNCHANGED <<raised, returned>>
    /\ UNCHANGED <<arg_chunks, arg_shape, chunks, i, j, none_index, chunksizes>>
    /\ UNCHANGED mvars

\* lines 159-160
DimNone ==
    /\ AtDim
    /\ chunks.v[i].t = "none"
    /\ Branch(NoneChunks(arg_shape[i]))

\* lines 161-168
DimScalar ==
    /\ AtDim
    /\ chunks.v[i].t # "none" /\ IsWhole(chunks.v[i])
    /\ Branch(ScalarChunks(arg_shape[i], chunks.v[i]))

\* lines 169-171
DimSeqBegin ==
    /\ AtDim
    /\ chunks.v[i].t = "seq"
    /\ cur_chunks' = << >>
    /\ none_index' = 0
    /\ j' = 1
    /\ pc' = "inner"
    /\ UNCHANGED <<arg_chunks, arg_shape, chunks, i, chunksizes, raised, returned>>
    /\ UNCHANGED mvars

\* lines 172-189, one element
SeqElem ==
    /\ pc = "inner"
    /\ j <= Len(chunks.v[i].v)
    /\ LET st == ElemStep(chunks.v[i].v[j], cur_chunks, none_index) IN
       IF st.err # ""
       THEN Throw(st.err) /\ UNCHANGED <<cur_chunks, none_index, j>>
       ELSE /\ cur_chunks' = st.cur
            /\ none_index' = st.nidx
            /\ j' = j + 1
            /\ UNCHANGED <<pc, raised, returned>>
    /\ UNCHANGED <<arg_chunks, arg_shape, chunks, i, chunksizes>>
    /\ UNCHANGED mvars

\* lines 190-197
SeqFill ==
    /\ pc = "inner"
    /\ j > Len(chunks.v[i].v)
    /\ LET f == FillStep(arg_shape[i], cur_chunks, none_index, arg_chunks, i) IN
       /\ arg_chunks' = f.caller
       /\ IF f.err # ""
          THEN Throw(f.err) /\ UNCHANGED cur_chunks
          ELSE /\ cur_chunks' = f.val
               /\ pc' = "append"
               /\ UNCHANGED <<raised, returned>>
    /\ UNCHANGED <<arg_shape, chunks, i, j, none_index, chunksizes>>
    /\ UNCHANGED mvars

\* lines 198-207
DimArray ==
    /\ AtDim
    /\ chunks.v[i].t = "array"
    /\ Branch(ArrayChunks(chunks.v[i].v))

\* lines 208-212
DimBad ==
    /\ AtDim
    /\ chunks.v[i].t \notin {"none", "seq", "array"} /\ ~IsWhole(chunks.v[i])
    /\ Branch(Raise("TypeError"))

\* line 213
AppendDim ==
    /\ pc = "append"
    /\ chunksizes' = Append(chunksizes, cur_chunks)
    /\ i' = i + 1
    /\ pc' = "loop"
    /\ UNCHANGED <<arg_chunks, arg_shape, chunks, j, cur_chunks, none_index, raised, returned>>
    /\ UNCHANGED mvars

\* line 214
Return ==
    /\ pc = "loop"
    /\ i > Len(arg_shape)
    /\ returned' = [set |-> TRUE, val |-> chunksizes]
    /\ pc' = "returned"
    /\ UNCHANGED <<arg_chunks, arg_shape, chunks, i, j, cur_chunks, none_index,
                   chunksizes, raised>>
    /\ UNCHANGED mvars

Next ==
    \/ DoDispatch
    \/ CheckLen
    \/ DimNone
    \/ DimScalar
    \/ DimSeqBegin
    \/ SeqElem
    \/ SeqFill
    \/ DimArray
    \/ DimBad
    \/ AppendDim
    \/ Return

Spec == Init /\ [][Next]_vars

\* ------------------------------------------------------ the mask program
\* no call of normalize_chunks in progress, no mask made yet
MaskInit ==
    /\ arg_chunks = NoneV /\ arg_shape = << >> /\ chunks = NoneV
    /\ pc = "idle"
    /\ Locals0
    /\ masks = [s \in Slots |-> NoMask]
    /\ hist = [s \in Slots |-> << >>]

\* StructuralMask(obj)
MakeStructural(s, obj) ==
    /\ masks[s] = NoMask
    /\ masks' = [masks EXCEPT ![s] = NewMask("StructuralMask", obj)]
    /\ hist' = [hist EXCEPT ![s] = <<NewMask("StructuralMask", obj)>>]
    /\ UNCHANGED nvars

\* ValueMask(obj)
MakeValue(s, obj) ==
    /\ masks[s] = NoMask
    /\ masks' = [masks EXCEPT ![s] = NewMask("ValueMask", obj)]
    /\ hist' = [hist EXCEPT ![s] = <<NewMask("ValueMask", obj)>>]
    /\ UNCHANGED nvars

\* masks[s] = ~masks[s]
InvertMask(s) ==
    /\ masks[s] # NoMask
    /\ Len(hist[s]) <= MaxInverts
    /\ masks' = [masks EXCEPT ![s] = Invert(masks[s])]
    /\ hist' = [hist EXCEPT ![s] = Append(hist[s], Invert(masks[s]))]
    /\ UNCHANGED nvars

MaskNext ==
    \/ \E s \in Slots, obj \in Objs : MakeStructural(s, obj)
    \/ \E s \in Slots, obj \in Objs : MakeValue(s, obj)
    \/ \E s \in Slots : InvertMask(s)

MaskSpec == MaskInit /\ [][MaskNext]_vars

Terminated == pc \in {"raised", "returned"}

\* the machine computes the function
MachineAgrees ==
    Terminated =>
        LET r == normalize_chunks(arg_chunks, arg_shape) IN
        /\ (pc = "raised") = (r.err # "")
        /\ raised = r.err
        /\ pc = "returned" => returned = [set |-> TRUE, val |-> r.val]

TypeOK ==
    /\ pc \in {"idle", "start", "check_len", "loop", "inner", "append", "raised", "returned"}
    /\ raised \in {"", "TypeError", "ValueError", "ZeroDivisionError"}
    /\ (pc = "raised") = (raised # "")
    /\ (pc = "returned") = returned.set


\* ============================================================== the claims
\* helpers of the statements, written from the contract and not from the code
Nones(s) == {k \in 1..Len(s) : s[k].t = "none"}
NonNegWhole(c) == IsWhole(c) /\ ToInt(c) >= 0
Others(s) == [k \in 1..Len(s) |-> IF s[k].t = "none" THEN 0 ELSE ToInt(s[k])]
Rest(size, s) == size - Sum(Others(s))
OnePlaceholder(chunk) ==
    /\ chunk.t = "seq"
    /\ Cardinality(Nones(chunk.v)) = 1
    /\ \A k \in 1..Len(chunk.v) : chunk.v[k].t = "none" \/ NonNegWhole(chunk.v[k])
TwoPlaceholders(chunk) == chunk.t = "seq" /\ Cardinality(Nones(chunk.v)) >= 2
ValidDim(size, chunk) ==
    \/ chunk.t = "none"
    \/ IsWhole(chunk) /\ ToInt(chunk) > 0
    \/ /\ chunk.t = "seq"
       /\ \A k \in 1..Len(chunk.v) : chunk.v[k].t = "none" \/ NonNegWhole(chunk.v[k])
       /\ Cardinality(Nones(chunk.v)) <= 1
       /\ Cardinality(Nones(chunk.v)) = 1 => Rest(size, chunk.v) >= 0
    \/ /\ chunk.t = "array"
       /\ chunk.v.dtype = "int" /\ chunk.v.ndim = 1
       /\ \A k \in 1..Len(chunk.v.data) : chunk.v.data[k] >= 0
\* the call failed while processing dimension i
RaisedAtDim == pc = "raised" /\ i >= 1
\* the per-dimension loop was entered: chunks is a sequence of the right length
Entered == chunks.t = "seq" /\ i >= 1

\* C1: whenever the call returns, every returned partition list sums to the
\* size of its dimension, whatever form the dimension's spec has.
C1_SumEqualsShape ==
    pc = "returned" =>
        \A k \in 1..Len(arg_shape) : Sum(returned.val[k]) = arg_shape[k]

\* C2: when the dimension being processed has a whole-number chunk size
\* c <= 0 (given as the scalar argument or as an entry of the sequence), the
\* call fails, and the error is ValueError and no other kind.
C2_NonPositiveIsValueError ==
    /\ (Terminated /\ Entered
          /\ \E k \in 1..Len(chunks.v) : IsWhole(chunks.v[k]) /\ ToInt(chunks.v[k]) <= 0)
       => pc = "raised"
    /\ (RaisedAtDim /\ IsWhole(chunks.v[i]) /\ ToInt(chunks.v[i]) <= 0)
       => raised = "ValueError"

\* C3: a dimension of size `size` given a whole chunk size c > 0 is accepted
\* and yields floor(size/c) entries c, then size mod c iff that is non-zero;
\* no entry is zero and the remainder, when present, is last.
C3_ScalarPartition ==
    /\ RaisedAtDim => ~(IsWhole(chunks.v[i]) /\ ToInt(chunks.v[i]) > 0)
    /\ pc = "returned" =>
         \A k \in 1..Len(arg_shape) :
            IsWhole(chunks.v[k]) =>
               LET c == ToInt(chunks.v[k])
                   size == arg_shape[k]
                   out == returned.val[k]
                   full == size \div c
               IN  /\ c > 0
                   /\ Len(out) = full + (IF size % c # 0 THEN 1 ELSE 0)
                   /\ \A n \in 1..full : out[n] = c
                   /\ size % c # 0 => out[full + 1] = size % c
                   /\ \A n \in 1..Len(out) : out[n] # 0
C3_Witness ==
    /\ pc = "returned"
    /\ \E k \in 1..Len(arg_shape) :
          /\ chunks.v[k].t = "float" /\ IsWhole(chunks.v[k])
          /\ arg_shape[k] \div ToInt(chunks.v[k]) >= 1
          /\ arg_shape[k] % ToInt(chunks.v[k]) # 0
          /\ Len(returned.val[k]) = 2

\* C4: a nested spec with exactly one None and otherwise non-negative whole
\* numbers comes back entry for entry, the placeholder replaced by size minus
\* the sum of the others when that is >= 0; when it is negative the call
\* fails with ValueError.
C4_PlaceholderResolved ==
    /\ pc = "returned" =>
         \A k \in 1..Len(arg_shape) :
            OnePlaceholder(chunks.v[k]) =>
               /\ Rest(arg_shape[k], chunks.v[k].v) >= 0
               /\ Len(returned.val[k]) = Len(chunks.v[k].v)
               /\ \A n \in 1..Len(chunks.v[k].v) :
                     returned.val[k][n] =
                        IF chunks.v[k].v[n].t = "none"
                        THEN Rest(arg_shape[k], chunks.v[k].v)
                        ELSE ToInt(chunks.v[k].v[n])
    /\ (RaisedAtDim /\ OnePlaceholder(chunks.v[i])) =>
          /\ Rest(arg_shape[i], chunks.v[i].v) < 0
          /\ raised = "ValueError"
C4_Witness ==
    /\ pc = "returned"
    /\ \E k \in 1..Len(arg_shape) :
          /\ OnePlaceholder(chunks.v[k])
          /\ Len(chunks.v[k].v) = 3
          /\ chunks.v[k].v[2].t = "none"
          /\ returned.val[k][2] > 0
          /\ returned.val[k][1] > 0 /\ returned.val[k][3] > 0

\* the first entry of a nested spec at which the loop over it stops, when the
\* spec has two placeholders: a negative whole number, an entry that is neither
\* a whole number nor None, or the second None
SecondNone(s) ==
    CHOOSE k \in Nones(s) : Cardinality({n \in Nones(s) : n < k}) = 1
Offends(s, k) ==
    \/ IsWhole(s[k]) /\ ToInt(s[k]) < 0
    \/ ~IsWhole(s[k]) /\ s[k].t # "none"
    \/ k = SecondNone(s)
FirstOffender(s) ==
    CHOOSE k \in 1..Len(s) : Offends(s, k) /\ \A n \in 1..(k - 1) : ~Offends(s, n)

\* C5 as stated: when the dimension being processed has a nested spec with two
\* or more None placeholders, the call fails with TypeError, whatever the other
\* entries are and wherever the placeholders sit.
C5_TwoPlaceholdersTypeError ==
    (RaisedAtDim /\ TwoPlaceholders(chunks.v[i])) => raised = "TypeError"

\* C5 amended: a call whose chunks hold a nested spec with two or more None
\* placeholders always fails; when that spec is the one being processed, the
\* error is TypeError unless the first offending entry up to the second
\* placeholder is a negative whole number, and then it is ValueError.
C5_TwoPlaceholdersFail ==
    /\ (Terminated /\ chunks.t = "seq"
          /\ \E k \in 1..Len(chunks.v) : TwoPlaceholders(chunks.v[k]))
       => pc = "raised"
    /\ (RaisedAtDim /\ TwoPlaceholders(chunks.v[i])) =>
          raised = IF IsWhole(chunks.v[i].v[FirstOffender(chunks.v[i].v)])
                   THEN "ValueError" ELSE "TypeError"
C5_Witness ==
    /\ RaisedAtDim
    /\ TwoPlaceholders(chunks.v[i])
    /\ Len(chunks.v[i].v) = 3
    /\ Nones(chunks.v[i].v) = {1, 3}
    /\ NonNegWhole(chunks.v[i].v[2])
    /\ raised = "TypeError"

\* C6: a call with a scalar chunk size c ends as the call with the tuple
\* (c,) * len(shape) does: the same result, or a failure of the same kind.
C6_ScalarAsTuple ==
    (Terminated /\ IsNumber(arg_chunks)) =>
        LET r == normalize_chunks(SeqV([k \in 1..Len(arg_shape) |-> arg_chunks]), arg_shape)
        IN  /\ raised = r.err
            /\ (pc = "returned") = (r.err = "")
            /\ pc = "returned" => returned.val = r.val
C6_Witness ==
    /\ pc = "returned"
    /\ IsNumber(arg_chunks)
    /\ Len(arg_shape) = 2
    /\ arg_shape[1] # arg_shape[2]
    /\ returned.val[1] # returned.val[2]

\* the length of a chunks argument given as a sequence or an array
ArgLen == IF arg_chunks.t = "seq" THEN Len(arg_chunks.v) ELSE Len(arg_chunks.v.data)

\* C7: a sequence or array of chunks whose length differs from len(shape)
\* fails with ValueError, before any dimension is looked at.
C7_LengthMismatch ==
    (Terminated /\ arg_chunks.t \in {"seq", "array"} /\ ArgLen # Len(arg_shape)) =>
        /\ pc = "raised"
        /\ raised = "ValueError"
        /\ i = 0 /\ chunksizes = << >>
C7_Witness ==
    /\ pc = "raised" /\ raised = "ValueError"
    /\ arg_chunks.t = "seq"
    /\ Len(arg_chunks.v) > Len(arg_shape)
    /\ \E k \in 1..Len(arg_chunks.v) : arg_chunks.v[k].t = "str"
    /\ \E k \in 1..Len(arg_chunks.v) : TwoPlaceholders(arg_chunks.v[k])

\* C8: the call fails as a whole: a failed call returns nothing, also when
\* earlier dimensions were processed; an invalid dimension in any position
\* makes the call fail; a result has one list for every dimension, all valid.
C8_Atomic ==
    /\ pc = "raised" => returned = NotReturned
    /\ pc # "returned" => returned = NotReturned
    /\ (Terminated /\ Entered
          /\ \E k \in 1..Len(arg_shape) : ~ValidDim(arg_shape[k], chunks.v[k]))
       => pc = "raised"
    /\ pc = "returned" =>
          /\ Len(returned.val) = Len(arg_shape)
          /\ \A k \in 1..Len(arg_shape) : ValidDim(arg_shape[k], chunks.v[k])
C8_Witness ==
    /\ pc = "raised"
    /\ i = 2
    /\ Len(chunksizes) = 1 /\ chunksizes[1] # << >>
    /\ ValidDim(arg_shape[1], chunks.v[1])
    /\ ~ValidDim(arg_shape[2], chunks.v[2])
    /\ returned = NotReturned

\* C9: no step of a call changes the caller's chunks or shape, a placeholder
\* is resolved in cur_chunks only, and the call ends as the function of its
\* (unchanged) arguments says.
C9_Pure ==
    /\ [][arg_chunks' = arg_chunks /\ arg_shape' = arg_shape]_vars
    /\ [](Terminated =>
            LET r == normalize_chunks(arg_chunks, arg_shape) IN
            /\ raised = r.err
            /\ pc = "returned" => returned.val = r.val)
C9_Witness ==
    /\ pc = "returned"
    /\ arg_chunks.t = "seq"
    /\ \E k \in 1..Len(arg_shape) :
          /\ OnePlaceholder(arg_chunks.v[k])
          /\ \E n \in Nones(arg_chunks.v[k].v) : returned.val[k][n] > 0

\* C10: every mask reached from a StructuralMask or a ValueMask by
\* inversions has exactly one of structure and value set; an inversion flips
\* complement and keeps structure, value and the wrapped object; two
\* inversions give back the variant and the object.
C10_MaskInversion ==
    \A s \in Slots :
       masks[s] # NoMask =>
          LET h == hist[s] IN
          /\ h[Len(h)] = masks[s]
          /\ \A k \in 1..Len(h) :
                /\ h[k].cls \in MaskClasses
                /\ Structure(h[k].cls) # Value(h[k].cls)
          /\ \A k \in 1..(Len(h) - 1) :
                /\ Complement(h[k + 1].cls) = ~Complement(h[k].cls)
                /\ Structure(h[k + 1].cls) = Structure(h[k].cls)
                /\ Value(h[k + 1].cls) = Value(h[k].cls)
                /\ h[k + 1].mask = h[k].mask
          /\ \A k \in 1..(Len(h) - 2) : h[k + 2] = h[k]
C10_Witness ==
    /\ Len(hist["a"]) >= 4 /\ hist["a"][1].cls = "StructuralMask"
    /\ Len(hist["b"]) >= 3 /\ hist["b"][1].cls = "ValueMask"
    /\ masks["a"].cls = "ComplementedStructuralMask"
    /\ masks["b"].cls = "ValueMask"

====
